---- MODULE Spec2Model ----
(***************************************************************************)
(* TerminalCoin portfolio ledger: Database.add_transaction               *)
(* (src/database.py) called through PortfolioManager.add_transaction     *)
(* (src/portfolio_manager.py), over one SQLite file shared by the         *)
(* connections that the calls open.                                        *)
(*                                                                         *)
(* Quantities.  Amounts and prices handed to record are whole numbers of  *)
(* a smallest unit; average_buy_price, the one column the code divides,   *)
(* is kept as an exact fraction <<numerator, denominator>> in lowest      *)
(* terms with a positive denominator.                                      *)
(*                                                                         *)
(* Storage.  Every call opens its own connection (sqlite3.connect).  The  *)
(* first statement of add_transaction is an INSERT, so the connection     *)
(* opens a transaction and takes the database's single write lock before  *)
(* it reads the holdings row; its writes (the transactions row of its     *)
(* arguments, the holdings rows of its coin in workH) stay private to the *)
(* connection until commit installs them, and a rollback drops them.      *)
(*                                                                         *)
(* Reads.  get_holdings and get_transactions run one SELECT on a          *)
(* connection of their own and see the committed tables;                   *)
(* get_portfolio_summary values the rows get_holdings returns.  view is   *)
(* what the read of the step just taken returned to its caller.            *)
(*                                                                         *)
(* Timestamps.  log is a database, written by one caller at a time, whose *)
(* transactions keep the datetime.utcnow() they were stored with;          *)
(* get_transactions orders by that column.                                 *)
(*                                                                         *)
(* Rate limiter.  limiter is one RateLimiter (src/api_client.py) with its *)
(* clock in whole seconds and the times at which its callers went on.     *)
(***************************************************************************)
EXTENDS Integers, Sequences, FiniteSets, TLC

(* ------------------------------ bounds -------------------------------- *)

\* Calls in flight plus transactions already stored never exceed MaxTx.
MaxTx == 3

\* Number of threads that may call add_transaction at the same time.
NumProcs == 2

\* In the runs that are read, calls in flight plus transactions stored never
\* exceed MaxViewTx.
MaxViewTx == 2

\* datetime.utcnow() gives one of MaxStamp values; the wall clock may repeat a
\* value or step back.
MaxStamp == 2

Procs == 1..NumProcs

(* ------------------------------ inputs -------------------------------- *)

\* Arguments of a well-formed record call on the coin "bitcoin".
ValidCalls ==
    { [coin_id |-> "bitcoin", symbol |-> "btc", type |-> t, amount |-> q[1], price |-> q[2]] :
        t \in {"BUY", "SELL"}, q \in { <<1, 1>>, <<1, 3>>, <<2, 1>> } }

\* Further calls a caller can make: a second coin, a lower-case kind, and
\* arguments outside record's input constraints.
OtherCalls ==
    { [coin_id |-> "ethereum", symbol |-> "eth", type |-> "BUY",  amount |-> 1,  price |-> 3],
      [coin_id |-> "bitcoin",  symbol |-> "btc", type |-> "buy",  amount |-> 1,  price |-> 1],
      [coin_id |-> "bitcoin",  symbol |-> "btc", type |-> "BUY",  amount |-> -1, price |-> 1],
      [coin_id |-> "bitcoin",  symbol |-> "btc", type |-> "BUY",  amount |-> 1,  price |-> 0],
      [coin_id |-> "bitcoin",  symbol |-> "btc", type |-> "HOLD", amount |-> 1,  price |-> 1],
      [coin_id |-> "",         symbol |-> "btc", type |-> "BUY",  amount |-> 1,  price |-> 1] }

Calls == ValidCalls \cup OtherCalls

NoArgs == [coin_id |-> "", symbol |-> "", type |-> "", amount |-> 0, price |-> 0]

(* --------------------------- exact fractions -------------------------- *)

Abs(n) == IF n < 0 THEN -n ELSE n

RECURSIVE GCD(_, _)
GCD(a, b) == IF b = 0 THEN a ELSE GCD(b, a % b)

\* n/d in lowest terms with a positive denominator (d # 0).
Frac(n, d) ==
    LET g == GCD(Abs(n), Abs(d))
        s == IF d < 0 THEN -1 ELSE 1
    IN  << (s * n) \div g, (s * d) \div g >>

\* The whole number k as a fraction.
FracOfInt(k) == << k, 1 >>

\* x * k, x + y, x - y and x / y (y # 0) on fractions x, y and a whole number k.
FracTimes(x, k) == Frac(x[1] * k, x[2])

FracAdd(x, y) == Frac(x[1] * y[2] + y[1] * x[2], x[2] * y[2])

FracSub(x, y) == Frac(x[1] * y[2] - y[1] * x[2], x[2] * y[2])

FracDiv(x, y) == Frac(x[1] * y[2], x[2] * y[1])

\* x >= y on fractions with positive denominators.
FracGeq(x, y) == x[1] * y[2] >= y[1] * x[2]

(* ------------------------------- state -------------------------------- *)

VARIABLES
    history,    \* table transactions, committed: sequence of rows in id order
    holdings,   \* table holdings, committed: set of rows
    writer,     \* the process whose connection holds the write lock, or 0
    pc,         \* pc[p]: where process p stands in add_transaction
    args,       \* args[p]: the arguments db.add_transaction was called with
    current,    \* current[p]: the fetched holdings row, as a set of 0 or 1 rows
    workH,      \* workH[p]: table holdings as p's open transaction sees it
    returned,   \* the latest return value of PortfolioManager.add_transaction
    raised,     \* the exception that call logged, "none" when it returned True
    okCount,    \* number of calls that have returned True
    view,       \* what the read made in the step just taken returned, or NoView
    twin,       \* two databases fed the same calls but for the prices of SELLs
    log,        \* a database whose transactions carry their timestamps
    limiter     \* a RateLimiter, the clock and the times its callers went on

vars == << history, holdings, writer, pc, args, current, workH, returned, raised,
           okCount, view, twin, log, limiter >>

\* The state apart from the ledger and its reads.
others == << twin, log, limiter >>

\* No read was made in the step just taken.
NoView ==
    [ kind |-> "none", error |-> "none", rows |-> << >>, prices |-> << >>,
      items |-> << >>, balance |-> << 0, 1 >>, pnl |-> << 0, 1 >>,
      again |-> FALSE ]

\* Two empty databases.
NoTwin ==
    [ a |-> [ t |-> << >>, h |-> {} ], b |-> [ t |-> << >>, h |-> {} ], n |-> 0 ]

\* An empty database, nothing read from it.
NoLog ==
    [ db |-> [ t |-> << >>, h |-> {} ], stamps |-> << >>,
      read |-> FALSE, filter |-> "None", out |-> << >> ]

\* RateLimiter.__init__ at time 0: no call made yet.
NoLimiter == [ calls |-> << >>, clock |-> 0, admitted |-> << >> ]

(* ------------------------------ helpers ------------------------------- *)

\* str.upper() on the strings the callers pass.
Upper(s) ==
    CASE s = "btc"  -> "BTC"
      [] s = "eth"  -> "ETH"
      [] s = "buy"  -> "BUY"
      [] s = "sell" -> "SELL"
      [] OTHER      -> s

\* TxRow with total_value taken from the price alone.
TxRowPriceOnly(a) ==
    [ coin_id        |-> a.coin_id,
      symbol         |-> a.symbol,
      type           |-> a.type,
      amount         |-> a.amount,
      price_per_coin |-> a.price,
      total_value    |-> a.price ]

\* The row INSERT INTO transactions writes for the arguments a.
TxRow(a) ==
    [ coin_id        |-> a.coin_id,
      symbol         |-> a.symbol,
      type           |-> a.type,
      amount         |-> a.amount,
      price_per_coin |-> a.price,
      total_value    |-> a.amount * a.price ]

\* SELECT * FROM holdings WHERE coin_id = c, on the table h.
RowsOf(h, c) == { r \in h : r.coin_id = c }

\* WeightedAvg that divides by the amount held before the BUY.
WeightedAvgOldAmount(existingAmount, existingAvg, amount, price) ==
    Frac(existingAmount * existingAvg[1] + amount * price * existingAvg[2],
         existingAvg[2] * existingAmount)

\* total_cost / new_amount of the BUY branch (new_amount # 0).
WeightedAvg(existingAmount, existingAvg, amount, price) ==
    Frac(existingAmount * existingAvg[1] + amount * price * existingAvg[2],
         existingAvg[2] * (existingAmount + amount))

\* BuyHoldings whose UPDATE has no WHERE clause.
BuyHoldingsEveryRow(h, cur, a) ==
    IF cur # {}
    THEN LET c == CHOOSE r \in cur : TRUE
         IN  { [ r EXCEPT !.amount = c.amount + a.amount,
                          !.average_buy_price =
                              WeightedAvg(c.amount, c.average_buy_price, a.amount, a.price) ]
               : r \in h }
    ELSE h \cup { [ coin_id           |-> a.coin_id,
                    symbol            |-> a.symbol,
                    amount            |-> a.amount,
                    average_buy_price |-> FracOfInt(a.price) ] }

\* BuyHoldings whose UPDATE stores the bought amount as the new amount.
BuyHoldingsAmountBought(h, cur, a) ==
    IF cur # {}
    THEN LET c == CHOOSE r \in cur : TRUE
         IN  (h \ RowsOf(h, a.coin_id)) \cup
             { [ r EXCEPT !.amount = a.amount,
                          !.average_buy_price =
                              WeightedAvg(c.amount, c.average_buy_price, a.amount, a.price) ]
               : r \in RowsOf(h, a.coin_id) }
    ELSE h \cup { [ coin_id           |-> a.coin_id,
                    symbol            |-> a.symbol,
                    amount            |-> a.amount,
                    average_buy_price |-> FracOfInt(a.price) ] }

\* BuyHoldings whose INSERT stores the total paid as average_buy_price.
BuyHoldingsTotalAsPrice(h, cur, a) ==
    IF cur # {}
    THEN LET c == CHOOSE r \in cur : TRUE
         IN  (h \ RowsOf(h, a.coin_id)) \cup
             { [ r EXCEPT !.amount = c.amount + a.amount,
                          !.average_buy_price =
                              WeightedAvg(c.amount, c.average_buy_price, a.amount, a.price) ]
               : r \in RowsOf(h, a.coin_id) }
    ELSE h \cup { [ coin_id           |-> a.coin_id,
                    symbol            |-> a.symbol,
                    amount            |-> a.amount,
                    average_buy_price |-> FracOfInt(a.amount * a.price) ] }

\* BuyHoldings on a table without its key: the BUY of a held coin adds a row.
BuyHoldingsAddsRow(h, cur, a) ==
    IF cur # {}
    THEN LET c == CHOOSE r \in cur : TRUE
         IN  h \cup
             { [ r EXCEPT !.amount = c.amount + a.amount,
                          !.average_buy_price =
                              WeightedAvg(c.amount, c.average_buy_price, a.amount, a.price) ]
               : r \in RowsOf(h, a.coin_id) }
    ELSE h \cup { [ coin_id           |-> a.coin_id,
                    symbol            |-> a.symbol,
                    amount            |-> a.amount,
                    average_buy_price |-> FracOfInt(a.price) ] }

\* Table holdings after the BUY branch: UPDATE of the fetched row, or INSERT.
BuyHoldings(h, cur, a) ==
    IF cur # {}
    THEN LET c == CHOOSE r \in cur : TRUE
         IN  (h \ RowsOf(h, a.coin_id)) \cup
             { [ r EXCEPT !.amount = c.amount + a.amount,
                          !.average_buy_price =
                              WeightedAvg(c.amount, c.average_buy_price, a.amount, a.price) ]
               : r \in RowsOf(h, a.coin_id) }
    ELSE h \cup { [ coin_id           |-> a.coin_id,
                    symbol            |-> a.symbol,
                    amount            |-> a.amount,
                    average_buy_price |-> FracOfInt(a.price) ] }

\* SellHoldings whose UPDATE also sets average_buy_price to the sale price.
SellHoldingsReprice(h, cur, a) ==
    IF cur # {}
    THEN LET c == CHOOSE r \in cur : TRUE
             new_amount == c.amount - a.amount
         IN  IF new_amount <= 0
             THEN h \ RowsOf(h, a.coin_id)
             ELSE (h \ RowsOf(h, a.coin_id)) \cup
                  { [ r EXCEPT !.amount = new_amount,
                               !.average_buy_price = FracOfInt(a.price) ]
                    : r \in RowsOf(h, a.coin_id) }
    ELSE h

\* SellHoldings that takes the proceeds of the sale off the cost of the rest.
SellHoldingsProceeds(h, cur, a) ==
    IF cur # {}
    THEN LET c == CHOOSE r \in cur : TRUE
             new_amount == c.amount - a.amount
         IN  IF new_amount <= 0
             THEN h \ RowsOf(h, a.coin_id)
             ELSE (h \ RowsOf(h, a.coin_id)) \cup
                  { [ r EXCEPT !.amount = new_amount,
                               !.average_buy_price =
                                   WeightedAvg(c.amount, c.average_buy_price,
                                               0 - a.amount, a.price) ]
                    : r \in RowsOf(h, a.coin_id) }
    ELSE h

\* SellHoldings that never deletes the row.
SellHoldingsNeverDeletes(h, cur, a) ==
    IF cur # {}
    THEN LET c == CHOOSE r \in cur : TRUE
         IN  (h \ RowsOf(h, a.coin_id)) \cup
             { [ r EXCEPT !.amount = c.amount - a.amount ] : r \in RowsOf(h, a.coin_id) }
    ELSE h

\* SellHoldings that deletes only when new_amount < 0.
SellHoldingsKeepZero(h, cur, a) ==
    IF cur # {}
    THEN LET c == CHOOSE r \in cur : TRUE
             new_amount == c.amount - a.amount
         IN  IF new_amount < 0
             THEN h \ RowsOf(h, a.coin_id)
             ELSE (h \ RowsOf(h, a.coin_id)) \cup
                  { [ r EXCEPT !.amount = new_amount ] : r \in RowsOf(h, a.coin_id) }
    ELSE h

\* SellHoldings that opens a short position when no row was fetched.
SellHoldingsShort(h, cur, a) ==
    IF cur # {}
    THEN LET c == CHOOSE r \in cur : TRUE
             new_amount == c.amount - a.amount
         IN  IF new_amount <= 0
             THEN h \ RowsOf(h, a.coin_id)
             ELSE (h \ RowsOf(h, a.coin_id)) \cup
                  { [ r EXCEPT !.amount = new_amount ] : r \in RowsOf(h, a.coin_id) }
    ELSE h \cup { [ coin_id           |-> a.coin_id,
                    symbol            |-> a.symbol,
                    amount            |-> 0 - a.amount,
                    average_buy_price |-> FracOfInt(a.price) ] }

\* Table holdings after the SELL branch: DELETE, UPDATE of amount, or nothing.
SellHoldings(h, cur, a) ==
    IF cur # {}
    THEN LET c == CHOOSE r \in cur : TRUE
             new_amount == c.amount - a.amount
         IN  IF new_amount <= 0
             THEN h \ RowsOf(h, a.coin_id)
             ELSE (h \ RowsOf(h, a.coin_id)) \cup
                  { [ r EXCEPT !.amount = new_amount ] : r \in RowsOf(h, a.coin_id) }
    ELSE h

\* HoldingsAfter that takes every type but SELL for a BUY.
HoldingsAfterElseBuys(h, cur, a) ==
    IF a.type = "SELL" THEN SellHoldings(h, cur, a) ELSE BuyHoldings(h, cur, a)

\* Step 2 of add_transaction on the table h, for the fetched row cur.
HoldingsAfter(h, cur, a) ==
    IF a.type = "BUY" THEN BuyHoldings(h, cur, a)
    ELSE IF a.type = "SELL" THEN SellHoldings(h, cur, a)
    ELSE h

\* The statement of step 2 raises: total_cost / new_amount with new_amount = 0
\* (ZeroDivisionError), or INSERT of a coin_id the table already has
\* (PRIMARY KEY, IntegrityError).
StepRaises(h, cur, a) ==
    /\ a.type = "BUY"
    /\ IF cur # {}
       THEN (CHOOSE r \in cur : TRUE).amount + a.amount = 0
       ELSE RowsOf(h, a.coin_id) # {}

StepError(cur) == IF cur # {} THEN "ZeroDivisionError" ELSE "IntegrityError"

\* LockFree of a database without a write lock.
LockIgnored(p) == TRUE

\* The write lock of the database file is free for p's first INSERT.
LockFree(p) == writer = 0

\* What the database holds once p's open transaction has been committed.
Committed(p) ==
    [ t |-> Append(history, TxRow(args[p])),
      h |-> (holdings \ RowsOf(holdings, args[p].coin_id))
                \cup RowsOf(workH[p], args[p].coin_id) ]

\* RolledBack of a connection that commits what it has written so far.
RolledBackPartial(p) == Committed(p)

\* What the database holds once p's open transaction has been rolled back.
RolledBack(p) == [ t |-> history, h |-> holdings ]

InFlight == { q \in Procs : pc[q] # "idle" }

(* ------------------------------ actions ------------------------------- *)

Init ==
    /\ history = << >>
    /\ holdings = {}
    /\ writer = 0
    /\ pc = [p \in Procs |-> "idle"]
    /\ args = [p \in Procs |-> NoArgs]
    /\ current = [p \in Procs |-> {}]
    /\ workH = [p \in Procs |-> {}]
    /\ returned = "none"
    /\ raised = "none"
    /\ okCount = 0
    /\ view = NoView
    /\ twin = NoTwin
    /\ log = NoLog
    /\ limiter = NoLimiter

\* p leaves PortfolioManager.add_transaction, returning True (err = "none") or,
\* having caught and logged the exception err, False; the database then holds db.
Leave(p, err, db) ==
    /\ history' = db.t
    /\ holdings' = db.h
    /\ writer' = IF writer = p THEN 0 ELSE writer
    /\ pc' = [pc EXCEPT ![p] = "idle"]
    /\ args' = [args EXCEPT ![p] = NoArgs]
    /\ current' = [current EXCEPT ![p] = {}]
    /\ workH' = [workH EXCEPT ![p] = {}]
    /\ returned' = IF err = "none" THEN "True" ELSE "False"
    /\ raised' = err
    /\ okCount' = IF err = "none" THEN okCount + 1 ELSE okCount
    /\ view' = NoView
    /\ UNCHANGED others

\* PortfolioManager.add_transaction is entered and calls db.add_transaction,
\* which opens its connection.
Call(p, c) ==
    /\ pc[p] = "idle"
    /\ Len(history) + Cardinality(InFlight) < MaxTx
    /\ pc' = [pc EXCEPT ![p] = "called"]
    /\ args' = [args EXCEPT ![p] =
                  [c EXCEPT !.symbol = Upper(c.symbol), !.type = Upper(c.type)]]
    /\ view' = NoView
    /\ UNCHANGED others
    /\ UNCHANGED << history, holdings, writer, current, workH, returned, raised, okCount >>

\* Step 1: INSERT INTO transactions opens p's transaction under the write lock.
InsertTx(p) ==
    /\ pc[p] = "called"
    /\ LockFree(p)
    /\ writer' = p
    /\ workH' = [workH EXCEPT ![p] = holdings]
    /\ pc' = [pc EXCEPT ![p] = "inserted"]
    /\ view' = NoView
    /\ UNCHANGED others
    /\ UNCHANGED << history, holdings, args, current, returned, raised, okCount >>

\* The lock stays with another connection until p's busy timeout runs out:
\* OperationalError, caught by the caller.
BusyTimeout(p) ==
    /\ pc[p] = "called"
    /\ writer \notin {0, p}
    /\ Leave(p, "database is locked", RolledBack(p))

\* SELECT * FROM holdings WHERE coin_id = ?; fetchone().
SelectHolding(p) ==
    /\ pc[p] = "inserted"
    /\ current' = [current EXCEPT ![p] =
           LET rows == RowsOf(workH[p], args[p].coin_id)
           IN  IF rows = {} THEN {} ELSE { CHOOSE r \in rows : TRUE }]
    /\ pc' = [pc EXCEPT ![p] = "selected"]
    /\ view' = NoView
    /\ UNCHANGED others
    /\ UNCHANGED << history, holdings, writer, args, workH, returned, raised, okCount >>

\* Step 2: the branch on type and on the fetched row.
UpdateHoldings(p) ==
    /\ pc[p] = "selected"
    /\ ~ StepRaises(workH[p], current[p], args[p])
    /\ workH' = [workH EXCEPT ![p] = HoldingsAfter(workH[p], current[p], args[p])]
    /\ pc' = [pc EXCEPT ![p] = "updated"]
    /\ view' = NoView
    /\ UNCHANGED others
    /\ UNCHANGED << history, holdings, writer, args, current, returned, raised, okCount >>

\* Step 2 raises: the with block rolls back, the caller returns False.
RaiseError(p) ==
    /\ pc[p] = "selected"
    /\ StepRaises(workH[p], current[p], args[p])
    /\ Leave(p, StepError(current[p]), RolledBack(p))

\* conn.commit(), then return True.
Commit(p) ==
    /\ pc[p] = "updated"
    /\ Leave(p, "none", Committed(p))

\* The storage fails under a statement or under the commit of p's open
\* transaction: the with block rolls back, the caller returns False.
Fault(p) ==
    /\ pc[p] \in {"inserted", "selected", "updated"}
    /\ Leave(p, "disk I/O error", RolledBack(p))

Next ==
    \E p \in Procs :
        \/ \E c \in Calls : Call(p, c)
        \/ InsertTx(p)
        \/ BusyTimeout(p)
        \/ SelectHolding(p)
        \/ UpdateHoldings(p)
        \/ RaiseError(p)
        \/ Commit(p)
        \/ Fault(p)

Spec == Init /\ [][Next]_vars

(* ------------------------- two runs side by side --------------------- *)

\* Prices a SELL may carry.
SellPrices == {0, 1, 3}

\* PortfolioManager.add_transaction run alone on the database db, the storage
\* not failing: the database it leaves.
Recorded(db, c) ==
    LET a   == [c EXCEPT !.symbol = Upper(c.symbol), !.type = Upper(c.type)]
        cur == LET rows == RowsOf(db.h, a.coin_id)
               IN  IF rows = {} THEN {} ELSE { CHOOSE r \in rows : TRUE }
    IN  IF StepRaises(db.h, cur, a)
        THEN db
        ELSE [ t |-> Append(db.t, TxRow(a)), h |-> HoldingsAfter(db.h, cur, a) ]

\* The call c is made on both databases; on the second one a SELL carries the
\* price q.
TwinCall(c, q) ==
    /\ twin.n < MaxTx
    /\ twin' = [ a |-> Recorded(twin.a, c),
                 b |-> Recorded(twin.b, IF Upper(c.type) = "SELL"
                                        THEN [c EXCEPT !.price = q] ELSE c),
                 n |-> twin.n + 1 ]
    /\ UNCHANGED << history, holdings, writer, pc, args, current, workH, returned,
                    raised, okCount, view, log, limiter >>

NextTwin == \E c \in Calls : \E q \in SellPrices : TwinCall(c, q)

SpecTwin == Init /\ [][NextTwin]_vars

(* ------------------------------- reads -------------------------------- *)

\* Price maps a caller hands to get_portfolio_summary: empty, partial, full.
PriceMaps ==
    { [c \in {} |-> 0],
      [c \in {"bitcoin"} |-> 3],
      [c \in {"bitcoin", "ethereum"} |-> IF c = "bitcoin" THEN 1 ELSE 5] }

\* Arguments of get_transactions: None, or a coin_id.
TxFilters == {"None", "", "bitcoin"}

\* Stored in which every connection sees the writer's uncommitted rows.
StoredDirty ==
    IF writer # 0 /\ pc[writer] \in {"inserted", "selected", "updated"}
    THEN Committed(writer)
    ELSE [ t |-> history, h |-> holdings ]

\* The tables as a connection other than the writer's sees them.
Stored == [ t |-> history, h |-> holdings ]

\* amount * average_buy_price of a holdings row.
CostBasis(r) == FracTimes(r.average_buy_price, r.amount)

\* The sequences that list every row of h once.
Listings(h) ==
    { s \in [1..Cardinality(h) -> h] : \A i, j \in DOMAIN s : i # j => s[i] # s[j] }

\* OrderedHoldings with ORDER BY ... ASC.
OrderedAscending(h) ==
    { s \in Listings(h) :
        \A i, j \in DOMAIN s : i < j => FracGeq(CostBasis(s[j]), CostBasis(s[i])) }

\* SELECT * FROM holdings ORDER BY amount * average_buy_price DESC: the orders
\* the rows may come in (rows of equal cost basis in either order).
OrderedHoldings(h) ==
    { s \in Listings(h) :
        \A i, j \in DOMAIN s : i < j => FracGeq(CostBasis(s[i]), CostBasis(s[j])) }

\* Values of the column timestamp.
Stamps == 1..MaxStamp

\* `if coin_id:` of get_transactions: None and "" take the branch without WHERE.
Filtered(f) == f \notin {"None", ""}

\* SELECT * FROM transactions [WHERE coin_id = ?] ORDER BY timestamp DESC on
\* the rows t, row i stamped st[i]: the ids of the rows returned, in the orders
\* they may come in (rows of equal timestamp in either order).
SelectTransactions(t, st, f) ==
    LET ids == { i \in 1..Len(t) : Filtered(f) => t[i].coin_id = f }
    IN  { s \in [1..Cardinality(ids) -> ids] :
            /\ \A a, b \in DOMAIN s : a # b => s[a] # s[b]
            /\ \A a, b \in DOMAIN s : a < b => st[s[a]] >= st[s[b]] }

\* CurrentPrice that falls back to 0.
CurrentPriceOrZero(prices, r) ==
    IF r.coin_id \in DOMAIN prices THEN FracOfInt(prices[r.coin_id]) ELSE FracOfInt(0)

\* current_prices.get(coin_id, avg_price)
CurrentPrice(prices, r) ==
    IF r.coin_id \in DOMAIN prices THEN FracOfInt(prices[r.coin_id]) ELSE r.average_buy_price

\* PnlGuard of a loop that always divides.
PnlGuardNone(cost) == TRUE

\* if cost_basis > 0
PnlGuard(cost) == cost[1] > 0

\* The loop body divides by a cost basis of 0: ZeroDivisionError.
ItemRaises(r) == PnlGuard(CostBasis(r)) /\ CostBasis(r)[1] = 0

\* The PortfolioItem of the holdings row r under the price map prices.
Item(r, prices) ==
    LET current_price == CurrentPrice(prices, r)
        current_value == FracTimes(current_price, r.amount)
        cost_basis    == CostBasis(r)
        pnl           == FracSub(current_value, cost_basis)
    IN  [ coin_id       |-> r.coin_id,
          symbol        |-> r.symbol,
          amount        |-> r.amount,
          avg_buy_price |-> r.average_buy_price,
          current_price |-> current_price,
          current_value |-> current_value,
          pnl           |-> pnl,
          pnl_percent   |-> IF PnlGuard(cost_basis)
                            THEN FracTimes(FracDiv(pnl, cost_basis), 100)
                            ELSE FracOfInt(0) ]

\* Summary that prepends each item.
SummaryReversed(rows, prices) ==
    [ i \in 1..Len(rows) |-> Item(rows[Len(rows) + 1 - i], prices) ]

\* summary: one item appended per row, in the order of the rows.
Summary(rows, prices) == [ i \in 1..Len(rows) |-> Item(rows[i], prices) ]

\* TotalBalance that sums pnl.
RECURSIVE TotalBalanceOfPnl(_)
TotalBalanceOfPnl(items) ==
    IF items = << >> THEN FracOfInt(0)
    ELSE FracAdd(items[1].pnl, TotalBalanceOfPnl(Tail(items)))

\* get_total_balance: sum(item.current_value for item in items)
RECURSIVE TotalBalance(_)
TotalBalance(items) ==
    IF items = << >> THEN FracOfInt(0)
    ELSE FracAdd(items[1].current_value, TotalBalance(Tail(items)))

\* get_total_pnl: sum(item.pnl for item in items)
RECURSIVE TotalPnl(_)
TotalPnl(items) ==
    IF items = << >> THEN FracOfInt(0)
    ELSE FracAdd(items[1].pnl, TotalPnl(Tail(items)))

\* What get_portfolio_summary gives for the rows get_holdings returned (err:
\* the exception get_holdings logged): the items, or the ZeroDivisionError of
\* the loop.
SummaryView(rows, err, prices) ==
    IF \E i \in 1..Len(rows) : ItemRaises(rows[i])
    THEN [ NoView EXCEPT !.kind = "summary", !.error = "ZeroDivisionError",
                         !.rows = rows, !.prices = prices ]
    ELSE [ NoView EXCEPT !.kind = "summary", !.error = err, !.rows = rows,
                         !.prices = prices, !.items = Summary(rows, prices) ]

\* ReadOnly of a read that first deletes the holdings rows of no amount.
ReadOnlyPrunes ==
    /\ holdings' = { r \in holdings : r.amount > 0 }
    /\ UNCHANGED << history, writer, pc, args, current, workH, returned,
                    raised, okCount, others >>

\* The record state is left alone by a read.
ReadOnly ==
    UNCHANGED << history, holdings, writer, pc, args, current, workH, returned,
                 raised, okCount, others >>

\* The step just taken was get_holdings and returned rows.
JustListed == view.kind = "holdings" /\ view.error = "none"

\* The same SELECT on the same table gives its rows in the same order.
Repeats(s) ==
    (JustListed /\ { view.rows[i] : i \in DOMAIN view.rows } = { s[i] : i \in DOMAIN s })
    => s = view.rows

\* Database.get_holdings
ListHoldings ==
    /\ \E s \in OrderedHoldings(Stored.h) :
         /\ Repeats(s)
         /\ view' = [ NoView EXCEPT !.kind = "holdings", !.rows = s,
                                    !.again = JustListed ]
    /\ ReadOnly

\* Database.get_holdings when the storage fails: the exception is logged, [] returned.
ListHoldingsFault ==
    /\ view' = [ NoView EXCEPT !.kind = "holdings", !.error = "disk I/O error" ]
    /\ ReadOnly

\* Database.get_transactions, whatever timestamps the rows were stored with.
ListTransactions(f) ==
    /\ \E st \in [1..Len(Stored.t) -> Stamps] :
         \E s \in SelectTransactions(Stored.t, st, f) :
            view' = [ NoView EXCEPT !.kind = "transactions", !.prices = f,
                                    !.rows = [k \in DOMAIN s |-> Stored.t[s[k]]] ]
    /\ ReadOnly

\* Database.get_transactions when the storage fails: [] whatever the filter.
ListTransactionsFault ==
    /\ view' = [ NoView EXCEPT !.kind = "transactions", !.error = "disk I/O error" ]
    /\ ReadOnly

\* PortfolioManager.get_portfolio_summary
Summarize(prices) ==
    /\ \E s \in OrderedHoldings(Stored.h) : view' = SummaryView(s, "none", prices)
    /\ ReadOnly

\* SummarizeFault of a get_holdings that raises again what it caught.
SummarizeFaultRaised(prices) ==
    /\ view' = [ NoView EXCEPT !.kind = "summary", !.error = "OperationalError",
                               !.prices = prices ]
    /\ ReadOnly

\* PortfolioManager.get_portfolio_summary when get_holdings meets a storage failure.
SummarizeFault(prices) ==
    /\ view' = SummaryView(<< >>, "disk I/O error", prices)
    /\ ReadOnly

\* PortfolioManager.get_total_balance on the items a summary just returned.
GetTotalBalance ==
    /\ view.kind = "summary"
    /\ view.error # "ZeroDivisionError"
    /\ view' = [ view EXCEPT !.kind = "balance",
                             !.balance = TotalBalance(view.items) ]
    /\ ReadOnly

\* PortfolioManager.get_total_pnl on the items a summary just returned.
GetTotalPnl ==
    /\ view.kind = "summary"
    /\ view.error # "ZeroDivisionError"
    /\ view' = [ view EXCEPT !.kind = "pnl", !.pnl = TotalPnl(view.items) ]
    /\ ReadOnly

\* Calls of the runs that are read: BUY and SELL of 1 bitcoin @ 1, BUY of 1
\* ethereum @ 3, a free BUY and a BUY of a negative amount.
ViewCalls ==
    { c \in Calls :
        /\ c.coin_id # ""
        /\ c.type \in {"BUY", "SELL"}
        /\ c.amount \in {-1, 1}
        /\ c.coin_id = "bitcoin" => c.price \in {0, 1} }

\* A call of a run that is read.
ViewCall(p, c) ==
    /\ Len(history) + Cardinality(InFlight) < MaxViewTx
    /\ Call(p, c)

NextView ==
    \/ \E p \in Procs :
        \/ \E c \in ViewCalls : ViewCall(p, c)
        \/ InsertTx(p)
        \/ BusyTimeout(p)
        \/ SelectHolding(p)
        \/ UpdateHoldings(p)
        \/ RaiseError(p)
        \/ Commit(p)
        \/ Fault(p)
    \/ ListHoldings
    \/ ListHoldingsFault
    \/ \E f \in TxFilters : ListTransactions(f)
    \/ ListTransactionsFault
    \/ \E prices \in PriceMaps : Summarize(prices)
    \/ \E prices \in PriceMaps : SummarizeFault(prices)
    \/ GetTotalBalance
    \/ GetTotalPnl

SpecView == Init /\ [][NextView]_vars

(* ------------------- the transactions and their timestamps ------------ *)

\* Calls of the runs whose history is listed: BUY of three coin_ids and a SELL.
LogCalls ==
    { c \in Calls :
        /\ c.type \in {"BUY", "SELL"}
        /\ c.amount = 1
        /\ c.coin_id = "bitcoin" => c.price = 1 }

\* PortfolioManager.add_transaction run alone, datetime.utcnow() giving ts: a
\* call that returns True has stored its transactions row with that timestamp.
LogRecord(c, ts) ==
    /\ Len(log.db.t) < MaxTx
    /\ LET db == Recorded(log.db, c)
       IN  log' = [ NoLog EXCEPT
                     !.db = db,
                     !.stamps = IF Len(db.t) > Len(log.db.t)
                                THEN Append(log.stamps, ts) ELSE log.stamps ]
    /\ UNCHANGED << history, holdings, writer, pc, args, current, workH, returned,
                    raised, okCount, view, twin, limiter >>

\* Database.get_transactions(f): the rows returned, with their id and timestamp.
LogRead(f) ==
    /\ \E s \in SelectTransactions(log.db.t, log.stamps, f) :
         log' = [ log EXCEPT
                   !.read = TRUE,
                   !.filter = f,
                   !.out = [ k \in DOMAIN s |->
                               [ id        |-> s[k],
                                 coin_id   |-> log.db.t[s[k]].coin_id,
                                 timestamp |-> log.stamps[s[k]] ] ] ]
    /\ UNCHANGED << history, holdings, writer, pc, args, current, workH, returned,
                    raised, okCount, view, twin, limiter >>

NextLog ==
    \/ \E c \in LogCalls : \E ts \in Stamps : LogRecord(c, ts)
    \/ \E f \in TxFilters : LogRead(f)

SpecLog == Init /\ [][NextLog]_vars

(* --------------------------- the rate limiter ------------------------- *)

\* RateLimiter(max_calls, period): at most max_calls calls in period seconds.
max_calls == 2

period == 3

\* The clock stops at MaxClock.
MaxClock == 6

\* Calls made through one RateLimiter.
MaxAdmitted == 4

\* self.calls once the call times outside the time window are removed.
Recent(calls, now) == SelectSeq(calls, LAMBDA t : now - t < period)

\* sleep_time of a full window: until the oldest call kept leaves it.
SleepTime(calls, now) == calls[1] + period - now

\* A second passes with no call.
Tick ==
    /\ limiter.clock < MaxClock
    /\ limiter' = [ limiter EXCEPT !.clock = @ + 1 ]
    /\ UNCHANGED << history, holdings, writer, pc, args, current, workH, returned,
                    raised, okCount, view, twin, log >>

\* RateLimiter._wait_if_needed, then the caller goes on with its request.
WaitIfNeeded ==
    /\ Len(limiter.admitted) < MaxAdmitted
    /\ LET now   == limiter.clock
           calls == Recent(limiter.calls, now)
           waits == Len(calls) >= max_calls /\ SleepTime(calls, now) > 0
           wakes == IF waits THEN now + SleepTime(calls, now) ELSE now
       IN  limiter' = [ calls    |-> IF waits THEN << now >> ELSE Append(calls, now),
                        clock    |-> wakes,
                        admitted |-> Append(limiter.admitted, wakes) ]
    /\ UNCHANGED << history, holdings, writer, pc, args, current, workH, returned,
                    raised, okCount, view, twin, log >>

NextRate == Tick \/ WaitIfNeeded

SpecRate == Init /\ [][NextRate]_vars

(* ------------------------- record: properties ------------------------- *)

Coins == { c.coin_id : c \in Calls }

\* In this step p returns from PortfolioManager.add_transaction.
Returns(p) == pc[p] # "idle" /\ pc'[p] = "idle"

\* In this step the storage fails under p's open transaction.
StorageFault(p) == Returns(p) /\ raised' = "disk I/O error"

\* The row p has fetched (current[p] # {}).
Fetched(p) == CHOOSE r \in current[p] : TRUE

\* The transactions of coin c, in id order.
TxOf(c) == SelectSeq(history, LAMBDA r : r.coin_id = c)

RECURSIVE TotalAmount(_)
TotalAmount(s) == IF s = << >> THEN 0 ELSE s[1].amount + TotalAmount(Tail(s))

RECURSIVE TotalCost(_)
TotalCost(s) ==
    IF s = << >> THEN 0 ELSE s[1].amount * s[1].price_per_coin + TotalCost(Tail(s))

\* C1: a record call with amount <= 0 or price_per_unit <= 0 returns a failure
\* and leaves the transactions and the holdings as they were.
C1_InvalidRejected ==
    [][ \A p \in Procs :
          (Returns(p) /\ (args[p].amount <= 0 \/ args[p].price <= 0))
          => (returned' = "False" /\ history' = history /\ holdings' = holdings) ]_vars

\* C2: a record call whose kind is neither BUY nor SELL, or whose coin_id is
\* empty, returns a failure, appends no transaction and changes no holding.
C2_UnknownKindRejected ==
    [][ \A p \in Procs :
          (Returns(p) /\ (args[p].type \notin {"BUY", "SELL"} \/ args[p].coin_id = ""))
          => (returned' = "False" /\ history' = history /\ holdings' = holdings) ]_vars

\* C3: step 2 of a BUY (amount > 0, price > 0) on a coin that has a holdings
\* row, the storage not failing, sets the row's amount to existing.amount +
\* amount and makes its cost basis amount * average_buy_price grow by
\* amount * price_per_unit.
C3_BuyExisting ==
    [][ \A p \in Procs :
          ( /\ pc[p] = "selected"
            /\ pc'[p] # "selected"
            /\ args[p].type = "BUY"
            /\ args[p].amount > 0
            /\ args[p].price > 0
            /\ current[p] # {}
            /\ ~ StorageFault(p) )
          => /\ pc'[p] = "updated"
             /\ \E r \in workH'[p] :
                  /\ RowsOf(workH'[p], args[p].coin_id) = {r}
                  /\ r.amount = Fetched(p).amount + args[p].amount
                  /\ r.average_buy_price[1] * r.amount * Fetched(p).average_buy_price[2]
                       = r.average_buy_price[2] *
                           ( Fetched(p).amount * Fetched(p).average_buy_price[1]
                             + args[p].amount * args[p].price
                                 * Fetched(p).average_buy_price[2] ) ]_vars

\* C4: a record call that fails after its INSERT and before its commit returns
\* a failure and leaves the stored transactions and holdings as they were
\* before the call.
C4_AllOrNothing ==
    [][ \A p \in Procs :
          ( /\ Returns(p)
            /\ pc[p] \in {"inserted", "selected", "updated"}
            /\ raised' # "none" )
          => /\ returned' = "False"
             /\ history' = history
             /\ holdings' = holdings
             /\ (pc[p] # "updated" => holdings' = workH[p]) ]_vars

C4_Witness ==
    /\ raised = "disk I/O error"
    /\ returned = "False"
    /\ Len(history) = 2
    /\ \E r \in holdings : r.amount = 2 /\ r.average_buy_price = << 2, 1 >>

\* C5: every stored holdings row has amount > 0.
C5_PositiveHoldings == \A r \in holdings : r.amount > 0

\* C6: a coin whose stored transactions are all BUYs of a positive amount,
\* however the calls that wrote them overlapped, has exactly one holdings row;
\* its amount is the sum of the bought amounts and its average_buy_price is
\* the total cost of the buys divided by that sum.
C6_BuysSerialized ==
    \A c \in Coins :
        LET txs == TxOf(c)
        IN  ( /\ txs # << >>
              /\ \A i \in 1..Len(txs) : txs[i].type = "BUY" /\ txs[i].amount > 0 )
            => \E r \in holdings :
                 /\ RowsOf(holdings, c) = {r}
                 /\ r.amount = TotalAmount(txs)
                 /\ r.average_buy_price[1] * TotalAmount(txs)
                      = r.average_buy_price[2] * TotalCost(txs)

\* One BUY of bitcoin is stored, a second at another price holds the lock with
\* its update written, and a third waits for the lock.
C6_Witness ==
    \E p, q \in Procs :
        /\ p # q
        /\ Len(history) = 1
        /\ history[1].type = "BUY" /\ history[1].coin_id = "bitcoin"
        /\ pc[p] = "updated" /\ writer = p
        /\ args[p].type = "BUY" /\ args[p].coin_id = "bitcoin" /\ args[p].amount > 0
        /\ args[p].price # history[1].price_per_coin
        /\ current[p] # {}
        /\ pc[q] = "called"
        /\ args[q].type = "BUY" /\ args[q].coin_id = "bitcoin" /\ args[q].amount > 0

\* C7: a SELL that fetched a holdings row with existing.amount - amount > 0
\* returns True, unless the storage fails, and then the coin's row is the
\* fetched row with amount existing.amount - amount and the same
\* average_buy_price.
C7_SellKeepsAverage ==
    [][ \A p \in Procs :
          ( /\ Returns(p)
            /\ args[p].type = "SELL"
            /\ current[p] # {}
            /\ Fetched(p).amount - args[p].amount > 0
            /\ ~ StorageFault(p) )
          => /\ returned' = "True"
             /\ RowsOf(holdings', args[p].coin_id) =
                  { [ coin_id           |-> args[p].coin_id,
                      symbol            |-> Fetched(p).symbol,
                      amount            |-> Fetched(p).amount - args[p].amount,
                      average_buy_price |-> Fetched(p).average_buy_price ] } ]_vars

\* BUY 2 @ 1, then SELL 1 @ 3: one unit is left at average 1.
C7_Witness ==
    /\ returned = "True"
    /\ Len(history) = 2
    /\ history[1].type = "BUY" /\ history[1].amount = 2 /\ history[1].price_per_coin = 1
    /\ history[2].type = "SELL" /\ history[2].amount = 1 /\ history[2].price_per_coin = 3
    /\ history[1].coin_id = history[2].coin_id
    /\ \E r \in holdings :
         r.coin_id = history[2].coin_id /\ r.amount = 1 /\ r.average_buy_price = << 1, 1 >>

\* C8: a SELL that fetched a holdings row with existing.amount - amount <= 0
\* returns True, unless the storage fails, and then the coin has no holdings
\* row and the SELL is the newest stored transaction.
C8_SellAllDeletes ==
    [][ \A p \in Procs :
          ( /\ Returns(p)
            /\ args[p].type = "SELL"
            /\ current[p] # {}
            /\ Fetched(p).amount - args[p].amount <= 0
            /\ ~ StorageFault(p) )
          => /\ returned' = "True"
             /\ RowsOf(holdings', args[p].coin_id) = {}
             /\ Len(history') = Len(history) + 1
             /\ SubSeq(history', 1, Len(history)) = history
             /\ history'[Len(history')].type = "SELL"
             /\ history'[Len(history')].coin_id = args[p].coin_id
             /\ history'[Len(history')].amount = args[p].amount ]_vars

\* BUY 1, then SELL 2 of the same coin: the oversell is stored, the row is gone.
C8_Witness ==
    /\ returned = "True"
    /\ Len(history) = 2
    /\ history[1].type = "BUY" /\ history[1].amount = 1
    /\ history[2].type = "SELL" /\ history[2].amount = 2
    /\ history[1].coin_id = history[2].coin_id
    /\ RowsOf(holdings, history[2].coin_id) = {}

\* C9: a step changes the stored transactions only when a call returns True,
\* and then by appending one row that carries the call's coin_id, kind,
\* amount, price and total_value = amount * price; so the number of stored
\* transactions is the number of calls that returned True.
C9_AppendOnly ==
    [][ /\ \A p \in Procs :
             (Returns(p) /\ returned' = "True")
             => history' = Append(history,
                    [ coin_id        |-> args[p].coin_id,
                      symbol         |-> args[p].symbol,
                      type           |-> args[p].type,
                      amount         |-> args[p].amount,
                      price_per_coin |-> args[p].price,
                      total_value    |-> args[p].amount * args[p].price ])
        /\ (\A p \in Procs : ~ (Returns(p) /\ returned' = "True")) => history' = history
        /\ okCount' = Len(history') ]_vars

\* Two calls have returned True and a later one False.
C9_Witness ==
    /\ okCount = 2
    /\ returned = "False"
    /\ Len(history) = 2
    /\ history[2].amount = 1 /\ history[2].price_per_coin = 3
    /\ history[2].total_value = 3

\* C10: a SELL that fetched no holdings row returns True, unless the storage
\* fails, appends its transaction and leaves the table holdings as it was.
C10_SellWithoutHolding ==
    [][ \A p \in Procs :
          ( /\ Returns(p)
            /\ pc[p] = "updated"
            /\ args[p].type = "SELL"
            /\ current[p] = {}
            /\ ~ StorageFault(p) )
          => /\ returned' = "True"
             /\ holdings' = holdings
             /\ Len(history') = Len(history) + 1
             /\ SubSeq(history', 1, Len(history)) = history
             /\ history'[Len(history')].type = "SELL"
             /\ history'[Len(history')].coin_id = args[p].coin_id ]_vars

\* The only stored transaction is a SELL and no holdings row exists.
C10_Witness ==
    /\ returned = "True"
    /\ Len(history) = 1
    /\ history[1].type = "SELL"
    /\ holdings = {}

\* C11: a BUY that fetched no holdings row returns True, unless the storage
\* fails, and then the coin has one holdings row, with the bought amount as
\* amount and price_per_unit as average_buy_price.
C11_BuyCreatesHolding ==
    [][ \A p \in Procs :
          ( /\ Returns(p)
            /\ pc[p] = "updated"
            /\ args[p].type = "BUY"
            /\ current[p] = {}
            /\ ~ StorageFault(p) )
          => /\ returned' = "True"
             /\ RowsOf(holdings, args[p].coin_id) = {}
             /\ RowsOf(holdings', args[p].coin_id) =
                  { [ coin_id           |-> args[p].coin_id,
                      symbol            |-> args[p].symbol,
                      amount            |-> args[p].amount,
                      average_buy_price |-> << args[p].price, 1 >> ] } ]_vars

\* The first BUY of bitcoin, 2 @ 1, has returned True.
C11_Witness ==
    /\ returned = "True"
    /\ Len(history) = 1
    /\ history[1].type = "BUY" /\ history[1].amount = 2 /\ history[1].price_per_coin = 1
    /\ holdings = { [ coin_id |-> "bitcoin", symbol |-> "BTC", amount |-> 2,
                      average_buy_price |-> << 1, 1 >> ] }

\* C13: the stored table holdings has at most one row per coin_id.
C13_OneHoldingPerCoin ==
    \A r1, r2 \in holdings : r1.coin_id = r2.coin_id => r1 = r2

\* Two BUYs of bitcoin and one of ethereum are stored: two rows.
C13_Witness ==
    /\ Len(history) = 3
    /\ \A i \in 1..3 : history[i].type = "BUY" /\ history[i].amount > 0
    /\ Cardinality({ i \in 1..3 : history[i].coin_id = "bitcoin" }) = 2
    /\ Cardinality({ i \in 1..3 : history[i].coin_id = "ethereum" }) = 1
    /\ Cardinality(holdings) = 2

(* -------------------------- reads: properties ------------------------- *)

\* The rows a read returned, as a set.
Seen == { view.rows[i] : i \in 1..Len(view.rows) }

RECURSIVE SumBack(_, _)
SumBack(items, f) ==
    IF items = << >> THEN << 0, 1 >>
    ELSE FracAdd(SumBack(SubSeq(items, 1, Len(items) - 1), f), items[Len(items)][f])

\* C12: a read that did not fail returns whole stored rows only: get_holdings
\* returns the committed table, in which the coin of every record call still
\* open has the row that call fetched; get_transactions returns the rows of
\* the calls that have returned True and none of a call still open.
C12_ReadsSeeCommitted ==
    /\ (view.kind = "holdings" /\ view.error = "none")
       => /\ Seen = holdings
          /\ \A p \in Procs :
               pc[p] \in {"selected", "updated"}
               => RowsOf(Seen, args[p].coin_id) = current[p]
    /\ (view.kind = "transactions" /\ view.error = "none" /\ view.prices = "None")
       => /\ Len(view.rows) = okCount
          /\ \A i \in 1..okCount :
               /\ \E k \in 1..Len(history) : view.rows[i] = history[k]
               /\ \E k \in 1..Len(view.rows) : history[i] = view.rows[k]

\* get_holdings has returned the stored bitcoin row while a BUY of bitcoin
\* holds its updated row uncommitted.
C12_Witness ==
    /\ view.kind = "holdings" /\ view.error = "none"
    /\ \E p \in Procs :
         /\ pc[p] = "updated"
         /\ args[p].type = "BUY" /\ args[p].coin_id = "bitcoin"
         /\ current[p] # {}
         /\ RowsOf(workH[p], "bitcoin") # RowsOf(holdings, "bitcoin")
         /\ RowsOf(Seen, "bitcoin") = current[p]

\* C15: in a summary, the item of a row whose coin_id the price map lacks has
\* current_price = average_buy_price, current_value = amount *
\* average_buy_price, pnl = 0 and pnl_percent = 0, and the summary is returned.
C15_MissingPriceFallsBack ==
    view.kind = "summary"
    => /\ view.error # "ZeroDivisionError"
       /\ Len(view.items) = Len(view.rows)
       /\ \A i \in 1..Len(view.rows) :
            view.rows[i].coin_id \notin DOMAIN view.prices
            => /\ view.items[i].current_price = view.rows[i].average_buy_price
               /\ view.items[i].current_value[1] * view.rows[i].average_buy_price[2]
                    = view.rows[i].amount * view.rows[i].average_buy_price[1]
                        * view.items[i].current_value[2]
               /\ view.items[i].pnl = << 0, 1 >>
               /\ view.items[i].pnl_percent = << 0, 1 >>

\* A summary under a price map without ethereum holds an ethereum item.
C15_Witness ==
    /\ view.kind = "summary" /\ view.error = "none"
    /\ "bitcoin" \in DOMAIN view.prices
    /\ \E i \in 1..Len(view.items) :
         view.items[i].coin_id = "ethereum" /\ view.items[i].current_price = << 3, 1 >>

\* C16: every item of a summary has current_value = amount * current_price,
\* pnl = current_value - amount * avg_buy_price and, when amount *
\* avg_buy_price is not 0, pnl_percent = pnl / (amount * avg_buy_price) * 100.
C16_ItemFormulas ==
    view.kind = "summary"
    => /\ Len(view.items) = Len(view.rows)
       /\ \A i \in 1..Len(view.items) :
            LET it   == view.items[i]
                cost == << it.amount * it.avg_buy_price[1], it.avg_buy_price[2] >>
            IN  /\ it.current_value[1] * it.current_price[2]
                     = it.amount * it.current_price[1] * it.current_value[2]
                /\ it.pnl[1] * it.current_value[2] * cost[2]
                     = it.pnl[2] * (it.current_value[1] * cost[2]
                                      - cost[1] * it.current_value[2])
                /\ cost[1] # 0
                   => it.pnl_percent[1] * cost[1] * it.pnl[2]
                        = 100 * it.pnl[1] * cost[2] * it.pnl_percent[2]

\* C17: get_portfolio_summary returns a summary for every stored table and
\* price map, also when get_holdings fails, and an item whose cost basis is 0
\* has pnl_percent = 0.
C17_SummaryNeverFails ==
    view.kind = "summary"
    => /\ view.error # "ZeroDivisionError"
       /\ Len(view.items) = Len(view.rows)
       /\ \A i \in 1..Len(view.rows) :
            view.rows[i].amount * view.rows[i].average_buy_price[1] = 0
            => view.items[i].pnl_percent = << 0, 1 >>

\* A summary holds an item of cost basis 0 and current value 3.
C17_Witness ==
    /\ view.kind = "summary" /\ view.error = "none"
    /\ \E i \in 1..Len(view.items) :
         /\ view.items[i].amount = 1
         /\ view.items[i].avg_buy_price = << 0, 1 >>
         /\ view.items[i].pnl = << 3, 1 >>
         /\ view.items[i].pnl_percent = << 0, 1 >>

\* C18: a summary has one item per row get_holdings returned, in the order
\* of those rows, item i carrying coin_id, symbol, amount and
\* average_buy_price of row i; the rows are the stored rows, each once.
C18_SummaryKeepsOrder ==
    view.kind = "summary"
    => /\ Len(view.items) = Len(view.rows)
       /\ \A i \in 1..Len(view.rows) :
            /\ view.items[i].coin_id = view.rows[i].coin_id
            /\ view.items[i].symbol = view.rows[i].symbol
            /\ view.items[i].amount = view.rows[i].amount
            /\ view.items[i].avg_buy_price = view.rows[i].average_buy_price
       /\ view.error = "none"
          => Seen = holdings /\ Len(view.rows) = Cardinality(holdings)

\* A summary of two rows of different coins.
C18_Witness ==
    /\ view.kind = "summary" /\ view.error = "none"
    /\ Len(view.items) = 2
    /\ view.items[1].coin_id = "ethereum"
    /\ view.items[2].coin_id = "bitcoin"

\* C19: get_total_balance is the sum of current_value over the items and
\* get_total_pnl the sum of pnl; each is 0 for no items.
C19_Totals ==
    /\ view.kind = "balance"
       => /\ view.balance = SumBack(view.items, "current_value")
          /\ view.items = << >> => view.balance = << 0, 1 >>
    /\ view.kind = "pnl"
       => /\ view.pnl = SumBack(view.items, "pnl")
          /\ view.items = << >> => view.pnl = << 0, 1 >>

\* The balance of two items: bitcoin 1 @ 1 valued at 3, ethereum 1 @ 3 kept at 3.
C19_Witness ==
    /\ view.kind = "balance"
    /\ Len(view.items) = 2
    /\ view.balance = << 6, 1 >>
    /\ SumBack(view.items, "pnl") = << 2, 1 >>

\* C20: get_holdings, when the storage does not fail, returns every stored
\* row once, in non-increasing order of amount * average_buy_price.
C20_HoldingsByCostBasis ==
    (view.kind = "holdings" /\ view.error = "none")
    => /\ Seen = holdings
       /\ Len(view.rows) = Cardinality(holdings)
       /\ \A i, j \in 1..Len(view.rows) :
            i < j
            => view.rows[i].amount * view.rows[i].average_buy_price[1]
                   * view.rows[j].average_buy_price[2]
               >= view.rows[j].amount * view.rows[j].average_buy_price[1]
                   * view.rows[i].average_buy_price[2]

\* get_holdings has returned ethereum (cost basis 3) before bitcoin (1).
C20_Witness ==
    /\ view.kind = "holdings" /\ view.error = "none"
    /\ Len(view.rows) = 2
    /\ view.rows[1].coin_id = "ethereum"
    /\ view.rows[2].coin_id = "bitcoin" /\ view.rows[2].amount = 1
    /\ view.rows[2].average_buy_price = << 1, 1 >>

(* ----------------------- two runs: properties ------------------------- *)

\* C14: two sequences of add_transaction calls that differ only in the
\* prices of their SELLs leave the same holdings table: the same rows, with
\* the same amount and average_buy_price for every coin_id.
C14_SellPriceNotInHoldings ==
    /\ twin.a.h = twin.b.h
    /\ Len(twin.a.t) = Len(twin.b.t)
    /\ \A i \in 1..Len(twin.a.t) :
         twin.a.t[i].type # "SELL" => twin.a.t[i] = twin.b.t[i]

\* BUY 2, SELL 1 at different prices, BUY 1 @ 3: both tables hold bitcoin,
\* 2 @ 2.
C14_Witness ==
    /\ Len(twin.a.t) = 3
    /\ twin.a.t[2].type = "SELL" /\ twin.b.t[2].type = "SELL"
    /\ twin.a.t[2].price_per_coin # twin.b.t[2].price_per_coin
    /\ twin.a.t[3].type = "BUY"
    /\ \E r \in twin.b.h :
         r.coin_id = "bitcoin" /\ r.amount = 2 /\ r.average_buy_price = << 2, 1 >>

(* --------------------- transactions: properties ----------------------- *)

\* C21: get_transactions() returns every stored transactions row once,
\* get_transactions(coin_id) exactly the rows of that coin_id, and both in
\* non-increasing order of timestamp.
C21_TransactionsNewestFirst ==
    log.read
    => LET ids == { log.out[k].id : k \in DOMAIN log.out }
       IN  /\ Len(log.out) = Cardinality(ids)
           /\ log.filter = "None" => ids = 1..Len(log.db.t)
           /\ log.filter # "None"
              => ids = { i \in 1..Len(log.db.t) : log.db.t[i].coin_id = log.filter }
           /\ \A k \in DOMAIN log.out :
                /\ log.out[k].coin_id = log.db.t[log.out[k].id].coin_id
                /\ log.out[k].timestamp = log.stamps[log.out[k].id]
           /\ \A a, b \in DOMAIN log.out :
                a < b => log.out[a].timestamp >= log.out[b].timestamp

(* ---------------------- rate limiter: properties ---------------------- *)

\* C23: in every time window of period seconds, at most max_calls callers
\* have gone on past _wait_if_needed.
C23_LimitEnforced ==
    \A w \in 0..limiter.clock :
        Cardinality({ i \in DOMAIN limiter.admitted :
                        w <= limiter.admitted[i] /\ limiter.admitted[i] < w + period })
            <= max_calls

(* --------------------- reads: what they leave behind ------------------ *)

\* C22: get_holdings, get_transactions and get_portfolio_summary (and the
\* totals) leave both tables and every open call as they were, and
\* get_holdings called again with no step of a record in between returns the
\* rows it returned before.
C22_ReadsPure ==
    [][ view'.kind # "none"
        => /\ history' = history
           /\ holdings' = holdings
           /\ << writer, pc, args, current, workH, okCount >>' =
                  << writer, pc, args, current, workH, okCount >>
           /\ (view'.kind = "holdings" /\ view'.error = "none" /\ view'.again)
              => view'.rows = view.rows ]_vars

\* get_holdings has been called twice in a row on a table of two rows.
C22_Witness ==
    /\ view.kind = "holdings" /\ view.error = "none"
    /\ view.again
    /\ Len(view.rows) = 2
    /\ { view.rows[i] : i \in 1..2 } = holdings

\* C30: no read raises; a read under a storage failure returns no rows, a
\* summary then has no items and the totals are 0, which is what the empty
\* tables give, and both tables stay as they were.
C30_ReadFaultIsEmpty ==
    [][ /\ view'.error \in {"none", "disk I/O error"}
        /\ view'.error = "disk I/O error"
           => /\ view'.kind \in {"holdings", "transactions", "summary", "balance", "pnl"}
              /\ view'.rows = << >>
              /\ view'.items = << >>
              /\ view'.balance = << 0, 1 >> /\ view'.pnl = << 0, 1 >>
              /\ view'.kind = "summary"
                 => [ view' EXCEPT !.error = "none" ] = SummaryView(<< >>, "none", view'.prices)
              /\ history' = history /\ holdings' = holdings ]_vars

\* A summary made under a storage failure has no items though a row is stored.
C30_Witness ==
    /\ view.kind = "summary" /\ view.error = "disk I/O error"
    /\ view.items = << >>
    /\ holdings # {}
    /\ history # << >>

(* --------------------- record: the ledger as a whole ------------------ *)

\* A transactions row of a valid call.
ValidTx(r) == r.type \in {"BUY", "SELL"} /\ r.amount > 0 /\ r.price_per_coin > 0

\* Total bought minus total sold in the transactions s.
RECURSIVE Net(_)
Net(s) ==
    IF s = << >> THEN 0
    ELSE Net(SubSeq(s, 1, Len(s) - 1))
           + (IF s[Len(s)].type = "BUY" THEN s[Len(s)].amount
              ELSE IF s[Len(s)].type = "SELL" THEN 0 - s[Len(s)].amount ELSE 0)

\* No SELL of s sells more than bought minus sold before it.
NoOversell(s) ==
    \A k \in 1..Len(s) : s[k].type = "SELL" => s[k].amount <= Net(SubSeq(s, 1, k - 1))

\* The amount on hand after the transactions s: a SELL of all that is held,
\* or of more, leaves nothing.
RECURSIVE Held(_)
Held(s) ==
    IF s = << >> THEN 0
    ELSE LET before == Held(SubSeq(s, 1, Len(s) - 1))
             r      == s[Len(s)]
         IN  IF r.type = "BUY" THEN before + r.amount
             ELSE IF r.type = "SELL"
                  THEN (IF before - r.amount <= 0 THEN 0 ELSE before - r.amount)
                  ELSE before

\* The prices of the BUYs of s since nothing was held.
PricesSinceCreated(s) ==
    LET first == CHOOSE k \in 1..Len(s) :
                    /\ s[k].type = "BUY"
                    /\ Held(SubSeq(s, 1, k - 1)) = 0
                    /\ \A j \in k + 1..Len(s) : Held(SubSeq(s, 1, j - 1)) # 0
    IN  { s[k].price_per_coin : k \in { j \in first..Len(s) : s[j].type = "BUY" } }

\* C24: for a coin whose stored transactions are all valid and never sell
\* more than is held, the holdings row has amount = total bought - total sold,
\* and the row exists exactly when that difference is > 0.
C24_AmountConserved ==
    \A c \in Coins :
        LET s == TxOf(c)
        IN  ((\A k \in 1..Len(s) : ValidTx(s[k])) /\ NoOversell(s))
            => /\ Net(s) > 0 => \E r \in holdings :
                                   /\ RowsOf(holdings, c) = {r}
                                   /\ r.amount = Net(s)
               /\ Net(s) <= 0 => RowsOf(holdings, c) = {}

\* BUY 1, BUY 2, SELL 1 of bitcoin are stored and 2 are held.
C24_Witness ==
    /\ Len(history) = 3
    /\ history[1].type = "BUY" /\ history[2].type = "BUY" /\ history[3].type = "SELL"
    /\ \A k \in 1..3 : history[k].coin_id = "bitcoin" /\ ValidTx(history[k])
    /\ Net(history) = 2
    /\ \E r \in holdings : r.coin_id = "bitcoin" /\ r.amount = 2

\* C25: for a coin whose stored transactions are all valid, the
\* average_buy_price of its holdings row is > 0 and lies between the lowest
\* and the highest price of the BUYs made since the row was last created.
C25_AverageWithinPrices ==
    \A r \in holdings :
        LET s == TxOf(r.coin_id)
        IN  (\A k \in 1..Len(s) : ValidTx(s[k]))
            => /\ r.average_buy_price[1] > 0
               /\ \A q \in PricesSinceCreated(s) :
                    \/ q * r.average_buy_price[2] <= r.average_buy_price[1]
                    \/ \E q2 \in PricesSinceCreated(s) : q2 < q
               /\ \A q \in PricesSinceCreated(s) :
                    \/ q * r.average_buy_price[2] >= r.average_buy_price[1]
                    \/ \E q2 \in PricesSinceCreated(s) : q2 > q

\* BUY 1 @ 1 then BUY 1 @ 3 of bitcoin: the average is 2.
C25_Witness ==
    /\ Len(history) = 2
    /\ history[1].type = "BUY" /\ history[1].price_per_coin = 1
    /\ history[2].type = "BUY" /\ history[2].price_per_coin = 3
    /\ \E r \in holdings : r.coin_id = "bitcoin" /\ r.average_buy_price = << 2, 1 >>

\* C26: from every database, two valid BUYs of one coin_id leave the same
\* holdings table whichever is made first.
C26_BuysCommute ==
    \A c1, c2 \in ValidCalls :
        (c1.type = "BUY" /\ c2.type = "BUY" /\ c1.coin_id = c2.coin_id)
        => Recorded(Recorded(twin.a, c1), c2).h = Recorded(Recorded(twin.a, c2), c1).h

\* C27: a BUY that returns True for a coin whose latest stored transaction is
\* a SELL that left nothing on hand creates the holdings row with the amount
\* and the price of that BUY, whatever was bought or oversold before.
C27_RestartAfterLiquidation ==
    [][ \A p \in Procs :
          LET s == TxOf(args[p].coin_id)
          IN  ( /\ Returns(p)
                /\ returned' = "True"
                /\ args[p].type = "BUY"
                /\ s # << >>
                /\ s[Len(s)].type = "SELL"
                /\ \E k \in 1..Len(s) : s[k].type = "BUY"
                /\ Held(s) = 0 )
              => RowsOf(holdings', args[p].coin_id) =
                   { [ coin_id           |-> args[p].coin_id,
                       symbol            |-> args[p].symbol,
                       amount            |-> args[p].amount,
                       average_buy_price |-> << args[p].price, 1 >> ] } ]_vars

\* BUY 1 @ 1, SELL 2 (one more than held), BUY 1 @ 3: bitcoin is held 1 @ 3.
C27_Witness ==
    /\ Len(history) = 3
    /\ history[1].type = "BUY" /\ history[1].price_per_coin = 1
    /\ history[2].type = "SELL" /\ history[2].amount = 2
    /\ history[3].type = "BUY" /\ history[3].price_per_coin = 3
    /\ holdings = { [ coin_id |-> "bitcoin", symbol |-> "BTC", amount |-> 1,
                      average_buy_price |-> << 3, 1 >> ] }

\* C28: step 2 of a call for a coin_id leaves the holdings rows of every other
\* coin_id as they were, and so does the call when it returns.
C28_OtherCoinsUntouched ==
    [][ \A p \in Procs : \A y \in Coins :
          y # args[p].coin_id
          => /\ (pc[p] = "selected" /\ pc'[p] = "updated")
                => RowsOf(workH'[p], y) = RowsOf(workH[p], y)
             /\ Returns(p) => RowsOf(holdings', y) = RowsOf(holdings, y) ]_vars

\* A second BUY of bitcoin has returned True beside a row of ethereum.
C28_Witness ==
    /\ Len(history) = 3
    /\ history[1].coin_id = "ethereum"
    /\ history[2].coin_id = "bitcoin" /\ history[2].type = "BUY"
    /\ history[3].coin_id = "bitcoin" /\ history[3].type = "BUY"
    /\ returned = "True"
    /\ \E r \in holdings :
         r.coin_id = "ethereum" /\ r.amount = 1 /\ r.average_buy_price = << 3, 1 >>
    /\ \E r \in holdings : r.coin_id = "bitcoin" /\ r.amount = 2

\* C29: every stored holdings row is of a coin_id that has a BUY among the
\* stored transactions, and a call that is not a BUY adds no holdings row.
C29_HoldingsFromBuys ==
    [][ /\ \A r \in holdings' :
             \E k \in 1..Len(history') :
                history'[k].coin_id = r.coin_id /\ history'[k].type = "BUY"
        /\ \A p \in Procs :
             (Returns(p) /\ args[p].type # "BUY")
             => { r.coin_id : r \in holdings' } \subseteq { r.coin_id : r \in holdings } ]_vars

\* A HOLD and a SELL of bitcoin are stored and no holdings row exists.
C29_Witness ==
    /\ Len(history) = 2
    /\ history[1].type = "HOLD"
    /\ history[2].type = "SELL"
    /\ holdings = {}
    /\ returned = "True"

====
